---- MODULE Spec2Model ----
(***************************************************************************)
(* PyGUI2: the address bus (bus.py), the element tree (elements.py), the   *)
(* root (core.py) and the window's pointer handling (widgets.py).          *)
(*                                                                         *)
(* The program is single threaded and reentrant: a handler may post,       *)
(* pump and destroy inside a pump.  Every method is therefore an operator  *)
(* from a program state (a record of all fields) to the program state      *)
(* after the call, nested calls included; an action applies one public     *)
(* call to the current state and commits the result.                       *)
(***************************************************************************)
EXTENDS Integers, Sequences, FiniteSets, TLC

VARIABLES parent, children, address, active, disposed, depth, cache, cache_r,
          rect, store, minimized,
          queue, elements, handler_cache, next_addr, processed,
          collected, err, log, nmsg, npump, ntree, moved, clicked, held, attached, posted, event, passthrough

vars == <<parent, children, address, active, disposed, depth, cache, cache_r,
          rect, store, minimized,
          queue, elements, handler_cache, next_addr, processed,
          collected, err, log, nmsg, npump, ntree, moved, clicked, held, attached, posted, event, passthrough>>

\* ------------------------------------------------------------------ bounds
\* configurable maximum depth (UIChassis.depth_max), scaled down
depth_max == 3
\* configurable cleanup threshold (AddressBus.__init__), scaled down
cleanup_threshold == 3
\* depths are kept inside -DepthCap .. DepthCap by the guards
DepthCap == 4
\* children sequences are kept this short by the guards
MaxChildren == 2
\* messages posted by callers (posts made by handlers are not limited)
MaxPosts == 2
\* add and remove calls made before the first message, where the bus is watched
MaxTreeOps == 2
MaxClickAdds == 3
MaxAddrOps == 3
MaxNestOps == 4

\* --------------------------------------------------------------- constants
BROADCAST == -1
titlebar_height == 24
border_width == 2
resize_corner_size == 12

\* ------------------------------------------------------------------- nodes
Nodes == {"rt", "a", "b", "c", "w", "v"}
NoNode == "none"
Windows == {"w", "v"}

Kind(n) == IF n = "rt" THEN "UIRoot" ELSE IF n \in Windows THEN "UIWindow" ELSE "UIElement"

Rect(x, y, w, h) == [x |-> x, y |-> y, w |-> w, h |-> h]

\* the rectangle each node is constructed with
InitRect(n) ==
    CASE n = "rt" -> Rect(0, 0, 800, 600)
      [] n = "a"  -> Rect(10, 10, 128, 64)
      [] n = "b"  -> Rect(20, 20, 128, 64)
      [] n = "c"  -> Rect(5, 5, 128, 64)
      [] n = "w"  -> Rect(50, 50, 250, 200)
      [] OTHER    -> Rect(400, 100, 150, 100)

\* ------------------------------------------------------------ dictionaries
\* A Python dict: a sequence of [k, v] in insertion order.
DictKeys(d) == {d[i].k : i \in 1..Len(d)}
DictHas(d, k) == k \in DictKeys(d)
DictGet(d, k) == (CHOOSE i \in 1..Len(d) : d[i].k = k)
DictVal(d, k) == d[DictGet(d, k)].v
DictSet(d, k, v) ==
    IF DictHas(d, k) THEN [d EXCEPT ![DictGet(d, k)] = [k |-> k, v |-> v]]
    ELSE Append(d, [k |-> k, v |-> v])
DictPop(d, k) == SelectSeq(d, LAMBDA e : e.k # k)

\* list.remove(x): the first occurrence only
RECURSIVE ListRemove(_, _)
ListRemove(l, x) ==
    IF l = <<>> THEN <<>>
    ELSE IF Head(l) = x THEN Tail(l)
    ELSE <<Head(l)>> \o ListRemove(Tail(l), x)

InList(l, x) == \E i \in 1..Len(l) : l[i] = x

\* ---------------------------------------------------------------- messages
Response == {"R_OK", "R_ERROR", "R_DISPOSED", "R_RESET", "R_TERMINATE",
             "R_CLEAR", "R_FONT", "R_VIS", "R_GET", "R_DATA"}

\* payloads: None, a node (DISPOSED), a dict of store keys (FONT, VIS),
\* a metadata snapshot (DATA)
DNone == [t |-> "none", node |-> NoNode, keys |-> {}, meta |-> <<>>]
DNode(n) == [t |-> "node", node |-> n, keys |-> {}, meta |-> <<>>]
DDict(ks) == [t |-> "dict", node |-> NoNode, keys |-> ks, meta |-> <<>>]
DMeta(m) == [t |-> "meta", node |-> NoNode, keys |-> {}, meta |-> <<m>>]

\* mid is the serial number of the post that made the packet (history only)
Packet(receiver, sender, rs, data, mid) ==
    [receiver |-> receiver, sender |-> sender, rs |-> rs, data |-> data, mid |-> mid]

\* -------------------------------------------------------------- the record
\* event: the position of the latest press (pos), the nodes that were active
\* when it arrived (was), the order in which it was due to be offered (order),
\* the nodes whose process_event saw it, each with the value it returned
\* (seen), and the value handle_event returned (history)
NoEvent == [pos |-> <<0, 0>>, was |-> {}, order |-> <<>>, seen |-> <<>>, ret |-> FALSE]

St == [parent |-> parent, children |-> children, address |-> address,
       active |-> active, disposed |-> disposed, depth |-> depth,
       cache |-> cache, cache_r |-> cache_r, rect |-> rect, store |-> store,
       minimized |-> minimized,
       queue |-> queue, elements |-> elements, handler_cache |-> handler_cache,
       next_addr |-> next_addr, processed |-> processed,
       collected |-> collected, err |-> err, log |-> log, nmsg |-> nmsg,
       npump |-> npump, ntree |-> ntree, moved |-> moved, clicked |-> clicked, held |-> held,
       attached |-> attached, posted |-> <<>>, event |-> NoEvent, seen |-> <<>>,
       passthrough |-> passthrough,
       pstack |-> <<>>, ret |-> FALSE]

Commit(s) ==
    /\ parent' = s.parent /\ children' = s.children /\ address' = s.address
    /\ active' = s.active /\ disposed' = s.disposed /\ depth' = s.depth
    /\ cache' = s.cache /\ cache_r' = s.cache_r /\ rect' = s.rect
    /\ store' = s.store /\ minimized' = s.minimized
    /\ queue' = s.queue /\ elements' = s.elements
    /\ handler_cache' = s.handler_cache /\ next_addr' = s.next_addr
    /\ processed' = s.processed /\ collected' = s.collected /\ err' = s.err
    /\ log' = s.log /\ nmsg' = s.nmsg /\ npump' = s.npump
    /\ ntree' = s.ntree /\ moved' = s.moved /\ clicked' = s.clicked
    /\ held' = s.held /\ attached' = s.attached /\ posted' = s.posted
    /\ event' = s.event /\ passthrough' = s.passthrough

\* history, one entry per event:
\*   "post"      mid posted to addr; aux: the pumps dispatching at that moment
\*   "pump"      pump invocation `pump` begins; aux: the pumps it is nested in
\*   "drain"     aux: the mids pump invocation `pump` took from the queue
\*   "msg"       the loop of `pump` reaches message mid; reset: it is a RESET
\*   "snap"      aux: the addresses of the handler cache copied for broadcast mid
\*   "call"      the handler of node at addr is invoked for mid; ok: it returned;
\*               cached: the node's cache_r held a rectangle at that moment;
\*               reginv: RegistryInvAt held at that moment
\*   "ret"       `pump` returns addr (its count)
\*   "unreg"     node is unregistered; aux: the pumps dispatching at that moment
\*   "disposed"  node.disposed is set
\*   "destroyed" node.destroy() ran to its end and returns
\* in s, every node that is not disposed and has an address has exactly one
\* registry entry, which resolves to it
RegistryInvAt(s) ==
    \A n \in Nodes : (~s.disposed[n] /\ s.address[n] >= 0) =>
        /\ Cardinality({i \in 1..Len(s.elements) : s.elements[i].k = s.address[n]}) = 1
        /\ \E i \in 1..Len(s.elements) :
              s.elements[i].k = s.address[n] /\ s.elements[i].v = n

\* the node a message carries as its payload is not marked disposed; it has a
\* parent
PayloadAlive(s, msg) == msg.data.t = "node" => ~s.disposed[msg.data.node]
PayloadLinked(s, msg) == msg.data.t = "node" => s.parent[msg.data.node] # NoNode

LogE(k, mid, addr, node, pump, ok, aux) ==
    [k |-> k, mid |-> mid, addr |-> addr, node |-> node, pump |-> pump,
     ok |-> ok, aux |-> aux, reset |-> FALSE, cached |-> FALSE, reginv |-> TRUE,
     alive |-> TRUE, linked |-> TRUE]
PumpIds(s) == {s.pstack[i].id : i \in 1..Len(s.pstack)}
TopPump(s) == IF s.pstack = <<>> THEN 0 ELSE s.pstack[Len(s.pstack)].id
Note(s, k, mid, addr, node, ok, aux) ==
    [s EXCEPT !.log = Append(@, LogE(k, mid, addr, node, TopPump(s), ok, aux))]

RECURSIVE pump(_), DispatchAll(_, _), DeliverAll(_, _, _), call_handler(_, _, _, _)
RECURSIVE handle_message(_, _, _), post(_, _, _, _, _, _), destroy(_, _)
RECURSIVE DestroyAll(_, _), root_destroy(_, _), element_destroy(_, _), DestroyBody(_, _)
RECURSIVE reset(_, _), ResetAll(_, _), update_depth(_, _, _), UpdateDepthAll(_, _, _)
RECURSIVE reset_graphics(_, _, _), ResetGraphicsAll(_, _)

\* ================================================================== bus.py
Init ==
    /\ parent = [n \in Nodes |-> NoNode]
    /\ children = [n \in Nodes |-> <<>>]
    /\ address = [n \in Nodes |-> IF n = "rt" THEN 1 ELSE -1]
    /\ active = [n \in Nodes |-> Kind(n) = "UIWindow"]
    /\ disposed = [n \in Nodes |-> FALSE]
    /\ depth = [n \in Nodes |-> 0]
    /\ cache = [n \in Nodes |-> NoNode]
    /\ cache_r = [n \in Nodes |-> <<>>]
    /\ rect = [n \in Nodes |-> InitRect(n)]
    /\ store = [n \in Nodes |-> {}]
    /\ minimized = [n \in Nodes |-> FALSE]
    /\ queue = <<>>
    /\ elements = <<[k |-> 1, v |-> "rt"]>>
    /\ handler_cache = <<[k |-> 1, v |-> "rt"]>>
    /\ next_addr = 2
    /\ processed = 0
    /\ collected = {}
    /\ err = "none"
    /\ log = <<>>
    /\ nmsg = 0
    /\ npump = 0
    /\ ntree = 0
    /\ moved = {}
    /\ clicked = FALSE
    /\ held = Nodes
    /\ attached = {}
    /\ posted = <<>>
    /\ event = NoEvent
    /\ passthrough = [n \in Nodes |-> FALSE]

\* mutant of register: the handler is cached but the registry entry is not
\* stored
register_handler_only(s, e) ==
    LET s1 == IF s.address[e] < 0
              THEN [s EXCEPT !.address[e] = s.next_addr, !.next_addr = @ + 1]
              ELSE s
    IN  [s1 EXCEPT !.handler_cache = DictSet(@, s1.address[e], e)]

\* mutant of register: a new address at every registration
register_fresh(s, e) ==
    LET s1 == [s EXCEPT !.address[e] = s.next_addr, !.next_addr = @ + 1]
    IN  [s1 EXCEPT !.elements = DictSet(@, s1.address[e], e),
                   !.handler_cache = DictSet(@, s1.address[e], e)]

register(s, e) ==
    LET s1 == IF s.address[e] < 0
              THEN [s EXCEPT !.address[e] = s.next_addr, !.next_addr = @ + 1]
              ELSE s
        addr == s1.address[e]
    IN  [s1 EXCEPT !.elements = DictSet(@, addr, e),
                   !.handler_cache = DictSet(@, addr, e)]

\* mutant of unregister: the registry entry is popped, the cached handler is
\* left behind
unregister_registry_only(s, e) ==
    LET addr == s.address[e]
        s1 == [s EXCEPT !.elements = DictPop(@, addr)]
    IN  Note(s1, "unreg", 0, addr, e, TRUE, PumpIds(s))

unregister(s, e) ==
    LET addr == s.address[e]
        s1 == [s EXCEPT !.elements = DictPop(@, addr),
                        !.handler_cache = DictPop(@, addr)]
    IN  Note(s1, "unreg", 0, addr, e, TRUE, PumpIds(s))

bus_post(s, msg) ==
    [Note([s EXCEPT !.queue = Append(@, msg)], "post", msg.mid, msg.receiver,
          msg.data.node, TRUE, PumpIds(s))
        EXCEPT !.log[Len(s.log) + 1].linked = PayloadLinked(s, msg)]

\* _cleanup: ref() is None for a node that was garbage collected
cleanup(s) ==
    LET dead == {s.elements[i].k : i \in {j \in 1..Len(s.elements) : s.elements[j].v \in s.collected}}
    IN  [s EXCEPT !.elements = SelectSeq(@, LAMBDA e : e.k \notin dead),
                  !.handler_cache = SelectSeq(@, LAMBDA e : e.k \notin dead)]

\* except Exception in _call_handler: what a handler can raise and the bus catches
Exceptions == {"TypeError", "RecursionError"}

\* processed += 1 in pump's loop, after _call_handler has returned
Counted(s) ==
    IF s.err # "none" THEN s
    ELSE [s EXCEPT !.pstack[Len(s.pstack)].processed = @ + 1]

\* the tail of pump: the periodic cleanup and the return
pump_end(s) ==
    IF s.err # "none" THEN s
    ELSE LET n == s.pstack[Len(s.pstack)].processed
             total == s.processed + n
             s1 == IF total >= cleanup_threshold
                   THEN [cleanup(s) EXCEPT !.processed = 0]
                   ELSE [s EXCEPT !.processed = total]
             s2 == Note(s1, "ret", 0, n, NoNode, TRUE, {})
         IN  [s2 EXCEPT !.pstack = SubSeq(@, 1, Len(@) - 1)]

\* mutants of pump: the queue is drained while it is dispatched (no snapshot);
\* the snapshot is dispatched newest first
RECURSIVE DispatchLive(_)
DispatchLive(s) ==
    IF s.queue = <<>> \/ s.err # "none" THEN s
    ELSE DispatchLive(DispatchAll([s EXCEPT !.queue = Tail(@)], <<Head(s.queue)>>))

pump_live(s) ==
    IF s.err # "none" \/ s.queue = <<>> THEN s
    ELSE LET id == s.npump + 1
             s1 == [s EXCEPT !.npump = id,
                             !.pstack = Append(@, [id |-> id, processed |-> 0])]
             s2 == Note(s1, "pump", 0, 0, NoNode, TRUE, PumpIds(s))
         IN  pump_end(DispatchLive(s2))

Reverse(q) == [i \in 1..Len(q) |-> q[Len(q) + 1 - i]]

pump_lifo(s) ==
    IF s.err # "none" \/ s.queue = <<>> THEN s
    ELSE LET id == s.npump + 1
             s1 == [s EXCEPT !.npump = id, !.queue = <<>>,
                             !.pstack = Append(@, [id |-> id, processed |-> 0])]
             s2 == Note(s1, "pump", 0, 0, NoNode, TRUE, PumpIds(s))
         IN  pump_end(DispatchAll(s2, Reverse(s.queue)))

pump(s) ==
    IF s.err # "none" \/ s.queue = <<>> THEN s
    ELSE LET id == s.npump + 1
             s1 == [s EXCEPT !.npump = id, !.queue = <<>>,
                             !.pstack = Append(@, [id |-> id, processed |-> 0])]
             s2 == Note(s1, "pump", 0, 0, NoNode, TRUE, PumpIds(s))
             s3 == Note(s2, "drain", 0, 0, NoNode, TRUE,
                        {s.queue[i].mid : i \in 1..Len(s.queue)})
         IN  pump_end(DispatchAll(s3, s.queue))

\* for msg in messages
DispatchAll(s, messages) ==
    IF messages = <<>> \/ s.err # "none" THEN s
    ELSE LET msg == Head(messages)
             snap == s.handler_cache
             s0 == [Note(s, "msg", msg.mid, msg.receiver, NoNode, TRUE, {})
                       EXCEPT !.log[Len(s.log) + 1].reset = (msg.rs = "R_RESET")]
             s1 == IF msg.receiver = BROADCAST
                   THEN DeliverAll(Note(s0, "snap", msg.mid, 0, NoNode, TRUE, DictKeys(snap)),
                                   snap, msg)
                   ELSE IF DictHas(s.handler_cache, msg.receiver)
                        THEN Counted(call_handler(s0, DictVal(s.handler_cache, msg.receiver),
                                                  msg, msg.receiver))
                        ELSE s0
         IN  DispatchAll(s1, Tail(messages))

\* mutant of DeliverAll: the handler cache is iterated in place, by position,
\* instead of a copy of it
RECURSIVE DeliverAllLive(_, _, _)
DeliverAllLive(s, items, msg) ==
    IF items = <<>> \/ s.err # "none" THEN s
    ELSE LET pos == Len(s.handler_cache) - Len(items) + 1
             s1 == Counted(call_handler(s, Head(items).v, msg, Head(items).k))
         IN  DeliverAllLive(s1, SubSeq(s1.handler_cache, pos + 1, Len(s1.handler_cache)), msg)

\* for addr, handler in list(self._handler_cache.items())
DeliverAll(s, items, msg) ==
    IF items = <<>> \/ s.err # "none" THEN s
    ELSE DeliverAll(Counted(call_handler(s, Head(items).v, msg, Head(items).k)),
                    Tail(items), msg)

\* mutant of _call_handler: no try/except around the handler
call_handler_nocatch(s, h, msg, addr) ==
    IF s.err # "none" THEN s
    ELSE handle_message(Note(s, "call", msg.mid, addr, h, FALSE, {}), h, msg)

\* handler is the bound method handle_message of node h
call_handler(s, h, msg, addr) ==
    IF s.err # "none" THEN s
    ELSE LET i == Len(s.log) + 1
             s1 == [Note(s, "call", msg.mid, addr, h, TRUE, {})
                       EXCEPT !.log[i].cached = s.cache_r[h] # <<>>,
                              !.log[i].reginv = RegistryInvAt(s),
                              !.log[i].alive = PayloadAlive(s, msg),
                              !.log[i].linked = PayloadLinked(s, msg)]
             s2 == handle_message(s1, h, msg)
         IN  IF s2.err \in Exceptions
             THEN [s2 EXCEPT !.err = "none", !.log[i].ok = FALSE]
             ELSE s2

\* ============================================================= elements.py
\* the rectangle at the rectangle's position offset by (dx, dy)
Offset(r, dx, dy) == Rect(r.x + dx, r.y + dy, r.w, r.h)

\* get_absolute_rect's value: <<rect>>, or <<>> when the recursion over the
\* parent links never ends (a cycle of parents with nothing cached)
RECURSIVE AbsRect(_, _, _)
AbsRect(s, n, fuel) ==
    IF s.cache_r[n] # <<>> THEN s.cache_r[n]
    ELSE IF s.parent[n] = NoNode THEN <<s.rect[n]>>
    ELSE IF fuel = 0 THEN <<>>
    ELSE LET p == AbsRect(s, s.parent[n], fuel - 1)
         IN  IF p = <<>> THEN <<>>
             ELSE <<Offset(s.rect[n], p[1].x, p[1].y)>>

\* get_absolute_rect's caching: every node visited stores its result
RECURSIVE AbsCache(_, _)
AbsCache(s, n) ==
    IF s.cache_r[n] # <<>> THEN s
    ELSE LET s1 == IF s.parent[n] = NoNode THEN s ELSE AbsCache(s, s.parent[n])
         IN  [s1 EXCEPT !.cache_r[n] = AbsRect(s1, n, 1)]

get_absolute_rect(s, n) ==
    IF s.err # "none" THEN s
    ELSE IF AbsRect(s, n, Cardinality(Nodes)) = <<>>
         THEN [s EXCEPT !.err = "RecursionError"]
         ELSE AbsCache(s, n)

collidepoint(r, pos) ==
    /\ r.x <= pos[1] /\ pos[1] < r.x + r.w
    /\ r.y <= pos[2] /\ pos[2] < r.y + r.h

update_depth(s, n, new_depth) ==
    LET depth_change == new_depth - s.depth[n]
    IN  UpdateDepthAll([s EXCEPT !.depth[n] = new_depth], s.children[n], depth_change)

UpdateDepthAll(s, kids, depth_change) ==
    IF kids = <<>> THEN s
    ELSE UpdateDepthAll(update_depth(s, Head(kids), s.depth[Head(kids)] + depth_change),
                        Tail(kids), depth_change)

reset_graphics(s, n, recursive) ==
    LET s1 == [s EXCEPT !.cache_r[n] = <<>>]
    IN  IF recursive THEN ResetGraphicsAll(s1, s1.children[n]) ELSE s1

ResetGraphicsAll(s, kids) ==
    IF kids = <<>> THEN s
    ELSE ResetGraphicsAll(reset_graphics(s, Head(kids), TRUE), Tail(kids))

\* mutant of reset: the node's own cache_r is kept
reset_keep(s, n) ==
    LET s2 == [s EXCEPT !.cache[n] = NoNode]
    IN  ResetAll(s2, s2.children[n])

\* reset and reset_branch
reset(s, n) ==
    LET s1 == reset_graphics(s, n, FALSE)
        s2 == [s1 EXCEPT !.cache[n] = NoNode]
    IN  ResetAll(s2, s2.children[n])

ResetAll(s, kids) ==
    IF kids = <<>> THEN s
    ELSE ResetAll(reset(s, Head(kids)), Tail(kids))

RECURSIVE reset_db(_, _, _), ResetDbAll(_, _)
reset_db(s, n, recursive) ==
    LET s1 == [s EXCEPT !.store[n] = {}]
    IN  IF recursive THEN ResetDbAll(s1, s1.children[n]) ELSE s1

ResetDbAll(s, kids) ==
    IF kids = <<>> THEN s
    ELSE ResetDbAll(reset_db(s, Head(kids), TRUE), Tail(kids))

\* the while loop of root(): the topmost ancestor, NoNode when the parent
\* links form a cycle and the loop never ends
RECURSIVE RootWalk(_, _, _)
RootWalk(s, n, fuel) ==
    IF s.parent[n] = NoNode THEN n
    ELSE IF fuel = 0 THEN NoNode
    ELSE RootWalk(s, s.parent[n], fuel - 1)

\* root()'s value (UIRoot.root returns self)
root_val(s, n) ==
    IF Kind(n) = "UIRoot" THEN n
    ELSE IF s.cache[n] # NoNode THEN s.cache[n]
    ELSE RootWalk(s, n, Cardinality(Nodes))

\* root()'s memoization
root(s, n) ==
    IF s.err # "none" \/ Kind(n) = "UIRoot" \/ s.cache[n] # NoNode THEN s
    ELSE IF root_val(s, n) = NoNode THEN [s EXCEPT !.err = "hang"]
    ELSE [s EXCEPT !.cache[n] = root_val(s, n)]

\* hasattr(rt, "bus") and rt.bus is not None
connected(rt) == Kind(rt) = "UIRoot"

get_metadata(s, n) ==
    [address |-> s.address[n], x |-> s.rect[n].x, y |-> s.rect[n].y,
     width |-> s.rect[n].w, height |-> s.rect[n].h, disposed |-> s.disposed[n],
     length |-> Len(s.children[n]),
     container |-> [i \in 1..Len(s.children[n]) |-> s.address[s.children[n][i]]],
     parent_address |-> IF s.parent[n] = NoNode THEN <<>> ELSE <<s.address[s.parent[n]]>>]

\* mutant of post: the bus is not pumped after a priority post
post_lazy(s, n, recv, resp, attachment, priority) ==
    IF s.err # "none" THEN s
    ELSE LET s1 == root(s, n)
             rt == root_val(s, n)
         IN  IF s1.err # "none" \/ ~connected(rt) THEN s1
             ELSE LET mid == s1.nmsg + 1
                  IN  bus_post([s1 EXCEPT !.nmsg = mid],
                               Packet(recv, s1.address[n], resp, attachment, mid))

post(s, n, recv, resp, attachment, priority) ==
    IF s.err # "none" THEN s
    ELSE LET s1 == root(s, n)
             rt == root_val(s, n)
         IN  IF s1.err # "none" \/ ~connected(rt) THEN s1
             ELSE LET mid == s1.nmsg + 1
                      s2 == bus_post([s1 EXCEPT !.nmsg = mid],
                                     Packet(recv, s1.address[n], resp, attachment, mid))
                  IN  IF priority THEN pump(s2) ELSE s2

\* mutant of handle_message: the reply to R_GET is posted with priority
handle_message_eager(s, n, msg) ==
    IF s.err # "none" THEN s
    ELSE IF s.disposed[n] \/ msg.sender = s.address[n] THEN s
    ELSE IF msg.rs = "R_GET"
    THEN post(s, n, msg.sender, "R_DATA", DMeta(get_metadata(s, n)), TRUE)
    ELSE s

handle_message(s, n, msg) ==
    IF s.err # "none" THEN s
    ELSE IF s.disposed[n] \/ msg.sender = s.address[n] THEN s
    ELSE CASE msg.rs = "R_GET" ->
                  post(s, n, msg.sender, "R_DATA", DMeta(get_metadata(s, n)), FALSE)
           [] msg.rs \in {"R_FONT", "R_VIS"} ->
                  IF msg.data.t = "dict"
                  THEN [s EXCEPT !.store[n] = @ \cup msg.data.keys]
                  ELSE [s EXCEPT !.err = "TypeError"]
           [] msg.rs = "R_RESET" -> reset(s, n)
           [] msg.rs = "R_TERMINATE" -> destroy(s, n)
           [] msg.rs = "R_CLEAR" -> reset_db(s, n, FALSE)
           [] OTHER -> s

remove(s, p, child) ==
    IF s.err # "none" THEN s
    ELSE IF InList(s.children[p], child)
         THEN reset([s EXCEPT !.children[p] = ListRemove(@, child),
                              !.parent[child] = NoNode], p)
         ELSE s

\* destroy is virtual: UIRoot overrides it
destroy(s, n) ==
    IF Kind(n) = "UIRoot" THEN root_destroy(s, n) ELSE element_destroy(s, n)

DestroyAll(s, kids) ==
    IF kids = <<>> \/ s.err # "none" THEN s
    ELSE DestroyAll(destroy(s, Head(kids)), Tail(kids))

\* the body of UIElement.destroy after its disposed guard
DestroyBody(s, n) ==
         LET s1 == DestroyAll(s, s.children[n])
             s2 == root(s1, n)
             s3 == IF s2.err = "none" /\ connected(root_val(s1, n))
                   THEN unregister(s2, n) ELSE s2
             s4 == post(s3, n, BROADCAST, "R_DISPOSED", DNode(n), TRUE)
         IN  IF s4.err # "none" THEN s4
             ELSE LET s5 == Note([s4 EXCEPT !.disposed[n] = TRUE],
                                 "disposed", 0, s4.address[n], n, TRUE, {})
                      s6 == IF s5.parent[n] # NoNode
                            THEN remove(s5, s5.parent[n], n) ELSE s5
                  IN  Note([s6 EXCEPT !.children[n] = <<>>, !.parent[n] = NoNode],
                           "destroyed", 0, s6.address[n], n, TRUE, {})

\* mutant of UIElement.destroy: no disposed guard
element_destroy_noguard(s, n) ==
    IF s.err # "none" THEN s ELSE DestroyBody(s, n)

element_destroy(s, n) ==
    IF s.err # "none" \/ s.disposed[n] THEN s ELSE DestroyBody(s, n)

\* the nodes reachable from the nodes of S along children sequences
RECURSIVE ChildClosure(_, _)
ChildClosure(s, S) ==
    LET T == S \cup UNION {{s.children[n][i] : i \in 1..Len(s.children[n])} : n \in S}
    IN  IF T = S THEN S ELSE ChildClosure(s, T)

\* _update_depth never returns when the children sequences below n lead back
\* to n: Python ends the recursion with RecursionError
DepthRecursionEnds(s, n) ==
    n \notin ChildClosure(s, {s.children[n][i] : i \in 1..Len(s.children[n])})

\* UIElement.add.  junk is the depth the nodes of a children cycle are left
\* with when _update_depth is cut short by RecursionError (it depends on the
\* interpreter's stack)
add(s, p, child, junk) ==
    IF s.err # "none" \/ child = p \/ s.parent[child] = p THEN s
    ELSE IF s.depth[child] < depth_max
    THEN LET s1 == [s EXCEPT !.children[p] = Append(@, child), !.parent[child] = p]
         IN  IF ~DepthRecursionEnds(s1, child)
             THEN [s1 EXCEPT !.err = "RecursionError",
                             !.depth = [n \in Nodes |->
                                        IF n \in ChildClosure(s1, {child}) THEN junk ELSE @[n]]]
             ELSE LET s2 == update_depth(s1, child, s1.depth[p] + 1)
                      s3 == reset(s2, p)
                      s4 == root(s3, p)
                  IN  IF s4.err = "none" /\ connected(root_val(s3, p))
                      THEN register(s4, child) ELSE s4
    ELSE s

\* ================================================================= core.py
root_destroy(s, n) ==
    LET s1 == post(s, n, BROADCAST, "R_CLEAR", DNone, TRUE)
        s2 == post(s1, n, BROADCAST, "R_RESET", DNone, TRUE)
        s3 == post(s2, n, BROADCAST, "R_TERMINATE", DNone, TRUE)
    IN  IF s3.err # "none" THEN s3
        ELSE Note(s3, "destroyed", 0, s3.address[n], n, TRUE, {})

\* UIRoot.add
root_add(s, p, child, junk) ==
    LET s1 == add(s, p, child, junk)
    IN  IF s1.err # "none" THEN s1 ELSE [s1 EXCEPT !.parent[child] = p]

\* ============================================== event dispatch, widgets.py
\* Every operator below leaves in s.ret the value the method returns.  The
\* event is a press of button 1 at pos; no handler is subscribed to the
\* "focus", "blur" and "click" events, and no window is maximized.
RECURSIVE handle_event(_, _, _), HandleChildren(_, _, _, _)

Ret(s, v) == [s EXCEPT !.ret = v]

\* UIChassis.is_inside: leaves its value in ret
is_inside(s, n, pos) ==
    LET s1 == get_absolute_rect(s, n)
    IN  IF s1.err # "none" THEN s1
        ELSE Ret(s1, collidepoint(s1.cache_r[n][1], pos))

RECURSIVE DeactivateAll(_, _, _, _)
DeactivateAll(s, p, kids, keep) ==
    IF kids = <<>> THEN s
    ELSE LET child == Head(kids)
             s1 == IF child # keep /\ s.active[child]
                   THEN [s EXCEPT !.active[child] = FALSE] ELSE s
         IN  DeactivateAll(reset_db(s1, p, FALSE), p, Tail(kids), keep)

\* UIElement.deactivate
deactivate(s, p, keep) == DeactivateAll(s, p, s.children[p], keep)

\* UIElement.process_mouse_button
process_mouse_button(s, n, pos) ==
    LET s1 == is_inside(s, n, pos)
    IN  IF s1.err # "none" THEN s1
        ELSE IF s1.ret
        THEN LET s2 == IF s1.parent[n] # NoNode THEN deactivate(s1, s1.parent[n], n)
                       ELSE s1
             IN  Ret([s2 EXCEPT !.active[n] = TRUE], TRUE)
        ELSE Ret([s1 EXCEPT !.active[n] = FALSE], FALSE)

\* UIElement.bring_to_front
bring_to_front(s, n) ==
    LET p == s.parent[n]
    IN  IF p = NoNode \/ ~InList(s.children[p], n) THEN s
        ELSE reset([s EXCEPT !.children[p] = Append(ListRemove(@, n), n)], p)

RECURSIVE DeactivateWindows(_, _, _)
DeactivateWindows(s, kids, n) ==
    IF kids = <<>> THEN s
    ELSE LET sibling == Head(kids)
             s1 == IF sibling # n /\ Kind(sibling) = "UIWindow" /\ s.active[sibling]
                   THEN reset_graphics([s EXCEPT !.active[sibling] = FALSE], sibling, TRUE)
                   ELSE s
         IN  DeactivateWindows(s1, Tail(kids), n)

\* UIWindow.bring_to_front
window_bring_to_front(s, n) ==
    LET s1 == bring_to_front(s, n)
    IN  IF s1.active[n] THEN s1
        ELSE LET s2 == reset_graphics([s1 EXCEPT !.active[n] = TRUE], n, TRUE)
             IN  IF s2.parent[n] = NoNode THEN s2
                 ELSE DeactivateWindows(s2, s2.children[s2.parent[n]], n)

\* UIWindow.minimize, UIWindow.restore
minimize(s, n) ==
    IF s.minimized[n] THEN s
    ELSE reset_graphics([s EXCEPT !.minimized[n] = TRUE], n, TRUE)

restore(s, n) == reset_graphics([s EXCEPT !.minimized[n] = FALSE], n, TRUE)

\* pygame.Rect.right and .bottom are x + w and y + h; both hitboxes include
\* their far edges
hitbox_titlebar(pos, r) ==
    /\ r.x <= pos[1] /\ pos[1] <= r.x + r.w
    /\ r.y <= pos[2] /\ pos[2] <= r.y + titlebar_height + border_width

hitbox_resizer(pos, r) ==
    /\ r.x + r.w - resize_corner_size <= pos[1] /\ pos[1] <= r.x + r.w
    /\ r.y + r.h - resize_corner_size <= pos[2] /\ pos[2] <= r.y + r.h

\* UIWindow.process_mouse_button
window_process_mouse_button(s, n, pos) ==
    IF s.minimized[n]
    THEN LET s1 == is_inside(s, n, pos)
         IN  IF s1.err # "none" THEN s1
             ELSE IF s1.ret THEN Ret(restore(s1, n), TRUE) ELSE Ret(s1, FALSE)
    ELSE LET s1 == get_absolute_rect(s, n)
         IN  IF s1.err # "none" THEN s1
             ELSE LET abs_rect == s1.cache_r[n][1]
                  IN  IF hitbox_resizer(pos, abs_rect) \/ hitbox_titlebar(pos, abs_rect)
                      THEN Ret(window_bring_to_front(s1, n), TRUE)
                      ELSE IF collidepoint(abs_rect, pos)
                      THEN process_mouse_button(window_bring_to_front(s1, n), n, pos)
                      ELSE Ret(s1, FALSE)

\* UIElement.process_event for a press of button 1
process_event(s, n, pos) ==
    LET s1 == IF s.passthrough[n] THEN Ret(s, FALSE)
              ELSE IF Kind(n) = "UIWindow" THEN window_process_mouse_button(s, n, pos)
              ELSE process_mouse_button(s, n, pos)
    IN  IF s1.err # "none" THEN s1
        ELSE [s1 EXCEPT !.seen = Append(@, [node |-> n, handled |-> s1.ret])]

\* mutant of handle_event's loop: the children are offered the event in the
\* order of the sequence, oldest first
HandleChildrenForward(s, n, i, pos) ==
    IF s.err # "none" THEN s
    ELSE IF i < 1 \/ i > Len(s.children[n]) THEN process_event(s, n, pos)
    ELSE LET s1 == handle_event(s, s.children[n][Len(s.children[n]) + 1 - i], pos)
         IN  IF s1.err # "none" \/ s1.ret THEN s1
             ELSE HandleChildren(s1, n, i - 1, pos)

\* UIElement.handle_event: reversed(self.children) reads the live sequence at
\* index i and ends when i is outside it
handle_event(s, n, pos) ==
    IF s.err # "none" THEN s
    ELSE HandleChildren(s, n, Len(s.children[n]), pos)

HandleChildren(s, n, i, pos) ==
    IF s.err # "none" THEN s
    ELSE IF i < 1 \/ i > Len(s.children[n]) THEN process_event(s, n, pos)
    ELSE LET s1 == handle_event(s, s.children[n][i], pos)
         IN  IF s1.err # "none" \/ s1.ret THEN s1
             ELSE HandleChildren(s1, n, i - 1, pos)

\* ================================================================= actions
Running == err = "none"
DepthRange == (0 - DepthCap)..DepthCap
JunkDepths == {0, DepthCap}
InRange(s) ==
    \A n \in Nodes : s.depth[n] \in DepthRange /\ Len(s.children[n]) <= MaxChildren

\* parent.add(child).  moved: the nodes of the subtree a cached node took to
\* a new parent in the latest add (history)
\* attached: the nodes of the subtree the latest add put below a parent whose
\* root has a bus (history)
AddResult(p, child, junk) ==
    LET s == IF Kind(p) = "UIRoot" THEN root_add(St, p, child, junk)
             ELSE add(St, p, child, junk)
        took == /\ s.err = "none"
                /\ Len(s.children[p]) > Len(children[p])
                /\ cache_r[child] # <<>>
        joined == /\ s.err = "none"
                  /\ Len(s.children[p]) > Len(children[p])
                  /\ connected(root_val(s, p))
    IN  [s EXCEPT !.moved = IF took THEN ChildClosure(s, {child}) ELSE {},
                  !.attached = IF joined THEN ChildClosure(s, {child}) ELSE {}]

Add(p, child) ==
    /\ Running
    /\ \E junk \in JunkDepths :
         /\ InRange(AddResult(p, child, junk))
         /\ Commit(AddResult(p, child, junk))

\* parent.remove(child)
Remove(p, child) ==
    /\ Running
    /\ Commit([remove(St, p, child) EXCEPT !.moved = {}, !.attached = {}])

\* add and remove calls that build the tree before the bus is used: at most
\* MaxTreeOps of them, counted in ntree
BuildAdd(p, child) ==
    /\ Running /\ log = <<>> /\ ntree < MaxTreeOps
    /\ \E junk \in JunkDepths :
         /\ InRange(AddResult(p, child, junk))
         /\ Commit([AddResult(p, child, junk) EXCEPT !.ntree = @ + 1])

BuildRemove(p, child) ==
    /\ Running /\ log = <<>> /\ ntree < MaxTreeOps
    /\ InList(children[p], child)
    /\ Commit([remove(St, p, child) EXCEPT !.ntree = @ + 1])

\* node.get_absolute_rect()
GetAbsoluteRect(n) ==
    /\ Running
    /\ Commit(get_absolute_rect(St, n))

\* node.post(recv, resp, attachment, priority), called from outside the bus
Post(n, recv, resp, attachment, priority) ==
    /\ Running
    /\ nmsg < MaxPosts
    /\ Commit(post(St, n, recv, resp, attachment, priority))

\* post by a node leaves the bus and the tree as they are in state s
PostLeavesBus(s) ==
    /\ s.queue = queue /\ s.log = log /\ s.nmsg = nmsg /\ s.npump = npump
    /\ s.elements = elements /\ s.handler_cache = handler_cache
    /\ s.processed = processed /\ s.next_addr = next_addr
    /\ s.parent = parent /\ s.children = children /\ s.address = address
    /\ s.active = active /\ s.disposed = disposed /\ s.depth = depth
    /\ s.cache_r = cache_r /\ s.rect = rect /\ s.store = store
    /\ s.minimized = minimized /\ s.err = err

\* node.post(recv, resp, attachment, priority), called from outside the bus.
\* posted: what the call was given and what it did (history): the sender of
\* the message as it was enqueued, whether the root had a bus, whether the
\* call left everything but the root memoization as it was (same) and the
\* memoization too (memo)
PostNow(n, recv, resp, attachment, priority) ==
    /\ Running
    /\ nmsg < MaxPosts
    /\ \E bus \in {connected(root_val(St, n))} :
       \E enq \in {post(St, n, recv, resp, attachment, FALSE)} :
       \E s \in {post(St, n, recv, resp, attachment, priority)} :
          Commit([s EXCEPT !.posted =
                    <<[node |-> n, recv |-> recv, mid |-> nmsg + 1,
                       priority |-> priority, bus |-> bus,
                       sender |-> IF bus /\ enq.queue # <<>>
                                  THEN enq.queue[Len(enq.queue)].sender ELSE 0,
                       same |-> PostLeavesBus(s), memo |-> s.cache = cache]>>])

\* root.bus.pump(), as the run loop calls it
Pump ==
    /\ Running
    /\ queue # <<>>
    /\ Commit(pump(St))

\* node.destroy()
Destroy(n) ==
    /\ Running
    /\ nmsg < MaxPosts
    /\ Commit(destroy(St, n))

\* the order in which handle_event(n) is due to offer an event: the children
\* last to first, each with its own subtree first, then n itself
RECURSIVE DispatchOrder(_, _), DispatchKids(_, _, _)
DispatchOrder(s, n) == DispatchKids(s, n, Len(s.children[n])) \o <<n>>

DispatchKids(s, n, i) ==
    IF i < 1 THEN <<>>
    ELSE DispatchOrder(s, s.children[n][i]) \o DispatchKids(s, n, i - 1)

\* the run loop hands a press of button 1 at pos to root.handle_event
Click(pos) ==
    /\ Running
    /\ \E s \in {handle_event(St, "rt", pos)} :
         Commit([s EXCEPT !.clicked = TRUE,
                          !.event = [pos |-> pos,
                                     was |-> {n \in Nodes : active[n]},
                                     order |-> DispatchOrder(St, "rt"),
                                     seen |-> s.seen, ret |-> s.ret]])

\* window.minimize()
Minimize(n) ==
    /\ Running
    /\ ~minimized[n]
    /\ Commit(minimize(St, n))

\* the add calls that build the tree the clicks go through: at most
\* MaxClickAdds of them, counted in ntree
ClickAdd(p, child) ==
    /\ Running /\ ntree < MaxClickAdds
    /\ \E junk \in JunkDepths :
         /\ InRange(AddResult(p, child, junk))
         /\ Commit([AddResult(p, child, junk) EXCEPT !.ntree = @ + 1])

\* node.passthrough = True, set by the client
SetPassthrough(n) ==
    /\ Running
    /\ ~passthrough[n]
    /\ Commit([St EXCEPT !.passthrough[n] = TRUE])

ClickNodes == {"rt", "w", "v", "a"}
\* with a, w and v children of the root: inside a, on w's titlebar, in w's
\* body, on w's resize corner, in v's body, inside the root only, outside it
ClickPoints ==
    {<<15, 15>>, <<60, 60>>, <<100, 150>>, <<295, 245>>, <<420, 150>>,
     <<700, 500>>, <<900, 700>>}

NextClick ==
    \/ \E p \in ClickNodes, child \in ClickNodes \ {"rt"} : ClickAdd(p, child)
    \/ \E pos \in ClickPoints : Click(pos)
    \/ \E n \in Windows : Minimize(n)

SpecClick == Init /\ [][NextClick]_vars

\* presses on a tree in which an element and a window can be made passthrough
PassNodes == {"a", "w"}

NextPass ==
    \/ \E p \in ClickNodes, child \in ClickNodes \ {"rt"} : ClickAdd(p, child)
    \/ \E pos \in ClickPoints : Click(pos)
    \/ \E n \in PassNodes : SetPassthrough(n)

SpecPass == Init /\ [][NextPass]_vars

\* attach, detach and destroy in any order: at most MaxAddrOps add and
\* remove calls, counted in ntree
AddrAdd(p, child) ==
    /\ Running /\ ntree < MaxAddrOps
    /\ \E junk \in JunkDepths :
         /\ InRange(AddResult(p, child, junk))
         /\ Commit([AddResult(p, child, junk) EXCEPT !.ntree = @ + 1])

AddrRemove(p, child) ==
    /\ Running /\ ntree < MaxAddrOps
    /\ InList(children[p], child)
    /\ Commit([remove(St, p, child) EXCEPT !.ntree = @ + 1])

AddrNodes == {"rt", "a", "b"}

NextAddr ==
    \/ \E p \in AddrNodes, child \in AddrNodes \ {"rt"} : AddrAdd(p, child)
    \/ \E p \in AddrNodes, child \in AddrNodes : AddrRemove(p, child)
    \/ \E n \in AddrNodes : Destroy(n)

SpecAddr == Init /\ [][NextAddr]_vars

\* ------------------------------------------------------------- ownership
\* held: the nodes a variable of the client refers to.  A node object refers
\* to its children, its parent and its memoized root.
RefersTo(n) ==
    ({children[n][i] : i \in 1..Len(children[n])} \cup {parent[n], cache[n]}) \ {NoNode}

RECURSIVE ReachableFrom(_)
ReachableFrom(S) ==
    LET T == S \cup UNION {RefersTo(n) : n \in S}
    IN  IF T = S THEN S ELSE ReachableFrom(T)

\* what the bus refers to strongly: the bound methods of the handler cache
\* (each holds its node) and the payloads of the queued messages; the
\* registry holds weak references only
BusHolds ==
    {handler_cache[i].v : i \in 1..Len(handler_cache)}
        \cup {queue[i].data.node : i \in {j \in 1..Len(queue) : queue[j].data.t = "node"}}

\* the client drops its reference to node n (the root stays held: it runs)
Drop(n) ==
    /\ Running /\ n \in held /\ Kind(n) # "UIRoot"
    /\ Commit([St EXCEPT !.held = @ \ {n}])

\* a node nothing refers to is reclaimed; the callback of its weak reference
\* (register's cleanup closure) pops its address from both dictionaries
Collect(n) ==
    /\ Running /\ n \notin collected
    /\ n \notin ReachableFrom(held \cup BusHolds)
    /\ Commit([St EXCEPT !.collected = @ \cup {n},
                         !.elements = IF DictHas(@, address[n]) /\ DictVal(@, address[n]) = n
                                      THEN DictPop(@, address[n]) ELSE @,
                         !.handler_cache = IF DictHas(elements, address[n])
                                              /\ DictVal(elements, address[n]) = n
                                           THEN DictPop(@, address[n]) ELSE @])

\* the client builds and takes apart the tree with the nodes it holds, and
\* lets nodes go
OwnAdd(p, child) == p \in held /\ child \in held /\ AddrAdd(p, child)
OwnRemove(p, child) == p \in held /\ child \in held /\ AddrRemove(p, child)
OwnDestroy(n) == n \in held /\ Destroy(n)

OwnNodes == {"rt", "a", "b"}

NextOwn ==
    \/ \E p \in OwnNodes, child \in OwnNodes \ {"rt"} : OwnAdd(p, child)
    \/ \E p \in OwnNodes, child \in OwnNodes : OwnRemove(p, child)
    \/ \E n \in OwnNodes : OwnDestroy(n)
    \/ \E n \in OwnNodes : Drop(n)
    \/ \E n \in OwnNodes : Collect(n)

SpecOwn == Init /\ [][NextOwn]_vars

\* the bus with geometry: the tree is built, rectangles are read, RESET is
\* posted and pumped, nodes are destroyed
ResetKinds == {"R_RESET"}
ResetNodes == {"rt", "a", "b"}

NextReset ==
    \/ \E p \in ResetNodes, child \in ResetNodes \ {"rt"} : BuildAdd(p, child)
    \/ \E p \in ResetNodes, child \in ResetNodes : BuildRemove(p, child)
    \/ \E n \in ResetNodes : GetAbsoluteRect(n)
    \/ \E n \in ResetNodes, resp \in ResetKinds, priority \in BOOLEAN :
         Post(n, BROADCAST, resp, DNone, priority)
    \/ Pump
    \/ \E n \in ResetNodes : Destroy(n)

SpecReset == Init /\ [][NextReset]_vars

TreeNodes == {"rt", "a", "b"}
GeomNodes == {"a", "b", "c"}
BusNodes == {"rt", "a", "b"}
PostKinds == {"R_GET", "R_FONT", "R_TERMINATE"}
Attachments(resp) == IF resp = "R_FONT" THEN {DNone, DDict({"font"})} ELSE {DNone}
Receivers == {BROADCAST} \cup 1..(next_addr - 1)

\* the root is the top of the tree: it is never given to add as the child
\* posts of an asset and of a command, pumps and destroys on a tree as it is
\* built
PostedKinds == {"R_FONT", "R_TERMINATE"}

NextPost ==
    \/ \E p \in BusNodes, child \in BusNodes \ {"rt"} : BuildAdd(p, child)
    \/ \E n \in BusNodes, recv \in Receivers, resp \in PostedKinds :
         \E attachment \in Attachments(resp) : Post(n, recv, resp, attachment, FALSE)
    \/ \E n \in BusNodes, recv \in Receivers, resp \in PostedKinds :
         \E attachment \in Attachments(resp) : PostNow(n, recv, resp, attachment, TRUE)
    \/ Pump

SpecPost == Init /\ [][NextPost]_vars

\* adds and removes among the root and three elements: a chain of the three
\* below the root reaches depth_max
DepthNodes == {"rt", "a", "b", "c"}

NextDepth ==
    \/ \E p \in DepthNodes, child \in DepthNodes \ {"rt"} : AddrAdd(p, child)
    \/ \E p \in DepthNodes, child \in DepthNodes : AddrRemove(p, child)

SpecDepth == Init /\ [][NextDepth]_vars

\* adds only, among the root, three elements and a window: enough nodes to
\* attach below a node that is at depth_max
NestAdd(p, child) ==
    /\ Running /\ ntree < MaxNestOps
    /\ \E junk \in JunkDepths :
         /\ InRange(AddResult(p, child, junk))
         /\ Commit([AddResult(p, child, junk) EXCEPT !.ntree = @ + 1])

NestNodes == {"rt", "a", "b", "c", "w"}

NextNest == \E p \in NestNodes, child \in NestNodes \ {"rt"} : NestAdd(p, child)

SpecNest == Init /\ [][NextNest]_vars

NextTree ==
    \/ \E p \in TreeNodes, child \in TreeNodes \ {"rt"} : Add(p, child)
    \/ \E p \in TreeNodes, child \in TreeNodes : Remove(p, child)

SpecTree == Init /\ [][NextTree]_vars

NextGeom ==
    \/ \E p \in GeomNodes, child \in GeomNodes : Add(p, child)
    \/ \E p \in GeomNodes, child \in GeomNodes : Remove(p, child)
    \/ \E n \in GeomNodes : GetAbsoluteRect(n)

SpecGeom == Init /\ [][NextGeom]_vars

Next ==
    \/ \E p \in BusNodes, child \in BusNodes \ {"rt"} : BuildAdd(p, child)
    \/ \E p \in BusNodes, child \in BusNodes : BuildRemove(p, child)
    \/ \E n \in BusNodes, recv \in Receivers, resp \in PostKinds, priority \in BOOLEAN :
         \E attachment \in Attachments(resp) : Post(n, recv, resp, attachment, priority)
    \/ Pump
    \/ \E n \in BusNodes : Destroy(n)

Spec == Init /\ [][Next]_vars

\* ================================================================== claims
LogIdx == 1..Len(log)
Calls == {i \in LogIdx : log[i].k = "call"}
\* the pumps that were dispatching when message mid was posted
PostedDuring(mid) == log[CHOOSE i \in LogIdx : log[i].k = "post" /\ log[i].mid = mid].aux
\* destroy() of node n has run to its end and returned
Destroyed(n) == \E i \in LogIdx : log[i].k = "destroyed" /\ log[i].node = n
\* the handler at addr was invoked for message mid by the loop of pump p
Invoked(mid, p, addr) ==
    \E c \in Calls : log[c].mid = mid /\ log[c].pump = p /\ log[c].addr = addr

\* C1: failure isolation.  No bus operation ends with an exception, and a
\* pump in which a handler raised still reaches every message it took from
\* the queue and invokes every address of every broadcast snapshot it made.
C1_FailureIsolated ==
    /\ log # <<>> => err \notin Exceptions
    /\ \A i \in Calls : ~log[i].ok =>
         LET p == log[i].pump
         IN  /\ \A d \in LogIdx : (log[d].k = "drain" /\ log[d].pump = p) =>
                   \A m \in log[d].aux :
                      \E j \in LogIdx : log[j].k = "msg" /\ log[j].pump = p /\ log[j].mid = m
             /\ \A j \in LogIdx : (log[j].k = "snap" /\ log[j].pump = p) =>
                   \A a \in log[j].aux : Invoked(log[j].mid, p, a)

\* a handler raised, and the same pump then invoked another address of the
\* same broadcast and, later, a handler for another message
C1_Witness ==
    \E i, j, k \in Calls :
        /\ i < j /\ j < k /\ ~log[i].ok
        /\ log[j].pump = log[i].pump /\ log[j].mid = log[i].mid /\ log[j].addr # log[i].addr
        /\ log[k].pump = log[i].pump /\ log[k].mid # log[i].mid

\* C2: queue snapshot.  A message posted while pump invocations were
\* dispatching is invoked by none of them, only by a pump that began later.
C2_QueueSnapshot ==
    \A c \in Calls : \A x \in PostedDuring(log[c].mid) : log[c].pump > x

\* a message posted during a dispatch has been delivered
C2_Witness == \E c \in Calls : PostedDuring(log[c].mid) # {}

\* C3 as claimed: handler invocations follow post order, for all messages.
C3_Fifo == \A i, j \in Calls : log[i].mid < log[j].mid => i < j

\* C3 amended: handler invocations follow post order for the messages that
\* were posted while no pump was dispatching.
C3_FifoOutsideDispatch ==
    \A i, j \in Calls :
        (/\ PostedDuring(log[i].mid) = {} /\ PostedDuring(log[j].mid) = {}
         /\ log[i].mid < log[j].mid) => i < j

\* two messages posted outside dispatch were delivered in order, with the
\* delivery of a message posted during the dispatch between them
C3_Witness ==
    \E i, j, k \in Calls :
        /\ i < k /\ k < j /\ log[i].mid < log[j].mid
        /\ PostedDuring(log[i].mid) = {} /\ PostedDuring(log[j].mid) = {}
        /\ PostedDuring(log[k].mid) # {}

\* C4: broadcast under reentrant destruction.  No bus operation ends with an
\* exception, and every address of a broadcast snapshot, whether or not it was
\* unregistered meanwhile, is invoked for that message by the pump that took
\* the snapshot (so no address that is still live is skipped).
C4_BroadcastComplete ==
    /\ log # <<>> => err \notin Exceptions
    /\ \A j \in LogIdx : log[j].k = "snap" =>
          \A a \in log[j].aux :
             \E c \in Calls : c > j /\ log[c].mid = log[j].mid
                              /\ log[c].pump = log[j].pump /\ log[c].addr = a

\* during a broadcast, a handler destroyed another node of the snapshot, and
\* the broadcast then went on to a further address
C4_Witness ==
    \E j, c1, u, c2 \in LogIdx :
        /\ j < c1 /\ c1 < u /\ u < c2
        /\ log[j].k = "snap" /\ log[c1].k = "call" /\ log[u].k = "unreg" /\ log[c2].k = "call"
        /\ log[c1].mid = log[j].mid /\ log[c1].pump = log[j].pump
        /\ log[c2].mid = log[j].mid /\ log[c2].pump = log[j].pump
        /\ log[j].pump \in log[u].aux
        /\ log[u].addr \in log[j].aux /\ log[u].node # log[c1].node
        /\ \A x \in LogIdx : (c1 < x /\ x < u) => log[x].k # "call" \/ log[x].pump # log[j].pump

\* C5 as claimed: in every state in which destroy() of a node has returned,
\* the node's address has no entry in the handler cache, so that no later
\* message can resolve to a handler of the node.  Stated for the nodes other
\* than the root, whose destroy() override never unregisters it.
C5_DestroyedUnresolvable ==
    \A n \in Nodes \ {"rt"} : Destroyed(n) => ~DictHas(handler_cache, address[n])

\* destroy(n) called now changes no node, no registry or handler-cache entry,
\* and posts nothing
DestroyChangesNothing(n) ==
    LET s == destroy(St, n)
    IN  /\ s.parent = parent /\ s.children = children /\ s.address = address
        /\ s.active = active /\ s.disposed = disposed /\ s.depth = depth
        /\ s.cache = cache /\ s.cache_r = cache_r /\ s.rect = rect
        /\ s.store = store /\ s.minimized = minimized
        /\ s.elements = elements /\ s.handler_cache = handler_cache
        /\ s.queue = queue /\ s.nmsg = nmsg /\ s.err = err

\* C6 as claimed: a second destroy() is a no-op, for every node.
C6_DestroyIdempotent ==
    \A n \in Nodes : Destroyed(n) => DestroyChangesNothing(n)

\* C6 amended: a second destroy() is a no-op for every node other than the
\* root.
C6_ElementDestroyIdempotent ==
    \A n \in Nodes \ {"rt"} : Destroyed(n) => DestroyChangesNothing(n)

\* a registered element has been destroyed
C6_Witness ==
    \E n \in Nodes \ {"rt"} : Destroyed(n) /\ address[n] > 0 /\ disposed[n]

\* ------------------------------------------------------------ tree claims
\* C7 as claimed: every node with a parent has its parent's depth + 1, and
\* every node without a parent has depth 0.
C7_DepthInvariant ==
    Running => \A n \in Nodes :
        IF parent[n] = NoNode THEN depth[n] = 0
        ELSE depth[n] = depth[parent[n]] + 1

\* the nodes from which n is reached along parent links
RECURSIVE Ancestors(_, _)
Ancestors(S, fuel) ==
    LET T == S \cup ({parent[n] : n \in S} \ {NoNode})
    IN  IF T = S \/ fuel = 0 THEN S ELSE Ancestors(T, fuel - 1)
\* the (parent, index) places at which n stands in a children sequence
Places(n) == {<<p, i>> \in Nodes \X (1..(MaxChildren + 1)) :
                 i <= Len(children[p]) /\ children[p][i] = n}

\* C8 as claimed: the parent relation has no cycle, and every node stands at
\* no more than one place of one children sequence.
C8_TreeShape ==
    /\ \A n \in Nodes :
          parent[n] # NoNode => n \notin Ancestors({parent[n]}, Cardinality(Nodes))
    /\ \A n \in Nodes : Cardinality(Places(n)) <= 1

\* ---------------------------------------------------------- click claims
Siblings(x, y) == x # y /\ parent[x] # NoNode /\ parent[x] = parent[y]

\* C9 as claimed: once a click went through the tree, no two children of the
\* same parent are active.
C9_ActivationExclusive ==
    (Running /\ clicked) => \A x, y \in Nodes : Siblings(x, y) => ~(active[x] /\ active[y])

\* ------------------------------------------------------- geometry claims
\* the node's position computed from the rectangles along its parent chain,
\* whatever the caches hold
RECURSIVE TruePos(_, _)
TruePos(n, fuel) ==
    IF parent[n] = NoNode \/ fuel = 0 THEN <<rect[n].x, rect[n].y>>
    ELSE LET pp == TruePos(parent[n], fuel - 1)
         IN  <<rect[n].x + pp[1], rect[n].y + pp[2]>>
TrueAbs(n) ==
    LET pp == TruePos(n, Cardinality(Nodes))
    IN  Rect(pp[1], pp[2], rect[n].w, rect[n].h)

\* C10 as claimed: after a node with a cached absolute rectangle is added to
\* a new parent, get_absolute_rect() of the node and of each descendant is
\* its rectangle offset by the position of the new parent chain.
C10_ReparentedGeometry ==
    Running => \A n \in moved :
        LET s == get_absolute_rect(St, n)
        IN  s.err = "none" => s.cache_r[n] = <<TrueAbs(n)>>

\* ------------------------------------------------------- GET / DATA claims
\* the queue holds one message, a GET to the registered node N from another
\* registered address
GetPending(N) ==
    /\ Len(queue) = 1
    /\ queue[1].rs = "R_GET"
    /\ address[N] >= 1 /\ queue[1].receiver = address[N]
    /\ DictHas(handler_cache, address[N]) /\ DictVal(handler_cache, address[N]) = N
    /\ queue[1].sender >= 1 /\ queue[1].sender # address[N]
    /\ DictHas(elements, queue[1].sender)

\* pump() now leaves exactly one message pending, the DATA reply of N to the
\* sender of the GET, which that pump has not dispatched
GetAnswered(N) ==
    LET s == pump(St)
    IN  /\ s.err = "none"
        /\ Len(s.queue) = 1
        /\ s.queue[1].rs = "R_DATA"
        /\ s.queue[1].receiver = queue[1].sender
        /\ s.queue[1].sender = address[N]
        /\ s.queue[1].data.t = "meta"
        /\ s.queue[1].data.meta[1].address = address[N]
        /\ \A i \in 1..Len(s.log) :
              s.log[i].k \in {"msg", "call"} => s.log[i].mid # s.queue[1].mid

\* C11 as claimed: a GET to any registered node, pumped once, leaves exactly
\* one DATA reply pending, addressed to the sender of the GET.
C11_GetData ==
    Running => \A N \in Nodes : GetPending(N) => GetAnswered(N)

\* C11 amended: the same, for a registered node that is not disposed and
\* whose root() is the bus-enabled root.
C11_GetDataConnected ==
    Running => \A N \in Nodes :
        (GetPending(N) /\ ~disposed[N] /\ connected(root_val(St, N))) => GetAnswered(N)

\* a pump has returned and left a single DATA reply pending, whose payload
\* carries the address of its sender
C11_Witness ==
    /\ Len(queue) = 1 /\ queue[1].rs = "R_DATA" /\ queue[1].receiver >= 1
    /\ queue[1].data.t = "meta" /\ queue[1].data.meta[1].address = queue[1].sender
    /\ log # <<>> /\ log[Len(log)].k = "ret"

\* ------------------------------------------------------------ RESET claims
\* node n has an entry of its own in the registry and in the handler cache
Registered(n) ==
    /\ address[n] >= 1
    /\ DictHas(elements, address[n]) /\ DictVal(elements, address[n]) = n
    /\ DictHas(handler_cache, address[n])

\* the queue holds one message, a broadcast RESET
ResetPending ==
    Len(queue) = 1 /\ queue[1].rs = "R_RESET" /\ queue[1].receiver = BROADCAST

\* C12 as claimed: pumping a broadcast RESET clears cache_r of every node
\* registered at that time, whoever sent it.
C12_ResetClearsAll ==
    (Running /\ ResetPending) =>
        \A n \in Nodes : Registered(n) => pump(St).cache_r[n] = <<>>

\* C12 amended: pumping a broadcast RESET clears cache_r of every registered
\* node that is not disposed and is not the sender.
C12_ResetClearsReceivers ==
    (Running /\ ResetPending) =>
        \A n \in Nodes :
            (Registered(n) /\ ~disposed[n] /\ address[n] # queue[1].sender)
                => pump(St).cache_r[n] = <<>>

\* a broadcast RESET reached a node whose cache_r held a rectangle, and the
\* node's cache_r is now empty
C12_Witness ==
    \E m, c \in LogIdx :
        /\ log[m].k = "msg" /\ log[m].reset /\ log[m].addr = BROADCAST
        /\ log[c].k = "call" /\ log[c].mid = log[m].mid /\ log[c].cached
        /\ cache_r[log[c].node] = <<>>

\* --------------------------------------------------------- registry claims
\* C13 as claimed: the registry invariant holds in every state a caller
\* observes and in every state a message handler observes when it is invoked.
C13_RegistryInvariant ==
    /\ Running => RegistryInvAt(St)
    /\ \A c \in Calls : log[c].reginv

\* C13 amended: the registry invariant holds in every state a caller observes
\* between operations.
C13_RegistryInvariantAtRest == Running => RegistryInvAt(St)

\* a registered node is attached and another registered node was destroyed
C13_Witness ==
    /\ \E n \in Nodes \ {"rt"} : ~disposed[n] /\ Registered(n)
    /\ \E n \in Nodes : disposed[n] /\ address[n] >= 1 /\ ~DictHas(elements, address[n])

\* ---------------------------------------------------------- address claims
\* every address held is positive and was allocated, and no two nodes hold
\* the same one
AddressesDistinct ==
    /\ \A n \in Nodes : address[n] = -1 \/ (address[n] >= 1 /\ address[n] < next_addr)
    /\ \A n, m \in Nodes : (n # m /\ address[n] >= 1) => address[n] # address[m]

\* a step keeps every address already held, never lowers the allocation
\* counter, and gives a node without address one that was never handed out
AddressesStable ==
    /\ next_addr' >= next_addr
    /\ \A n \in Nodes :
          /\ address[n] >= 1 => address'[n] = address[n]
          /\ (address[n] < 1 /\ address'[n] # address[n]) =>
                (address'[n] >= next_addr /\ address'[n] < next_addr')

\* C14: addresses are positive, unique, strictly increasing, never reused,
\* and a node keeps its address across re-registration, unregistration and
\* destroy.
C14_AddressAllocation == []AddressesDistinct /\ [][AddressesStable]_vars

\* a destroyed node was registered again under the address it had, while a
\* node registered later holds a greater one
C14_Witness ==
    \E n, m \in Nodes \ {"rt"} :
        /\ disposed[n] /\ Registered(n) /\ Destroyed(n)
        /\ address[m] > address[n]

\* -------------------------------------------------------- ownership claims
\* some owner other than the bus still leads to node n
OwnedElsewhere(n) == n \in ReachableFrom(held)

\* C15 as claimed: a registered node that no owner other than the bus leads
\* to is not held by anything the bus stores.
C15_WeakOwnership ==
    Running => \A n \in Nodes \ collected :
        (Registered(n) /\ ~OwnedElsewhere(n)) => n \notin BusHolds

\* ----------------------------------------------------- registration claims
\* C16 as claimed: after add(child) succeeded below a bus-enabled root, the
\* child and every node of its subtree have a positive address and a registry
\* entry.
C16_SubtreeRegistered ==
    Running => \A n \in attached : address[n] >= 1 /\ DictHas(elements, address[n])

\* ------------------------------------------------------- lifecycle claims
\* the log entry of the post of message mid
PostOf(mid) == CHOOSE i \in LogIdx : log[i].k = "post" /\ log[i].mid = mid

\* C17 as claimed: a node that is destroyed while attached announces itself
\* before it is marked disposed and detached: at every delivery of a DISPOSED
\* message to a handler, the node the message carries is not yet marked
\* disposed and still has its parent.
C17_DisposedBeforeMarked ==
    \A c \in Calls :
        (log[PostOf(log[c].mid)].node # NoNode /\ log[PostOf(log[c].mid)].linked)
            => log[c].alive /\ log[c].linked
\* ------------------------------------------------------------ post claims
\* message mid was dispatched to every handler it targets: the pump reached
\* it, invoked every address of its broadcast snapshot, and invoked the
\* handler of a unicast receiver that is in the handler cache
Dispatched(mid, recv) ==
    /\ \E i \in LogIdx : log[i].k = "msg" /\ log[i].mid = mid
    /\ \A i \in LogIdx :
          (log[i].k = "snap" /\ log[i].mid = mid) =>
              \A addr \in log[i].aux :
                  \E c \in Calls : log[c].mid = mid /\ log[c].addr = addr
    /\ (recv # BROADCAST /\ DictHas(handler_cache, recv)) =>
          \E c \in Calls : log[c].mid = mid /\ log[c].addr = recv

\* the priority post p has returned with its message enqueued under the
\* poster's address, dispatched and no longer pending
PostedAndPumped(p) ==
    /\ p.sender = address[p.node]
    /\ \A i \in 1..Len(queue) : queue[i].mid # p.mid
    /\ Dispatched(p.mid, p.recv)

\* C18 as claimed: a priority post below a bus-enabled root returns with the
\* message enqueued under the poster's address, dispatched and no longer
\* pending; a post by a node whose root has no bus changes no state at all.
C18_PriorityPost ==
    Running => \A i \in 1..Len(posted) :
        IF posted[i].bus
        THEN posted[i].priority => PostedAndPumped(posted[i])
        ELSE posted[i].same /\ posted[i].memo

\* C18 amended: the same, except that a post by a node whose root has no bus
\* may store the node's root memoization and changes nothing else.
C18_PriorityPostMemo ==
    Running => \A i \in 1..Len(posted) :
        IF posted[i].bus
        THEN posted[i].priority => PostedAndPumped(posted[i])
        ELSE posted[i].same

\* a priority post has just returned from a pump that took an older pending
\* message with it and invoked two handlers for the new one
C18_Witness ==
    /\ posted # <<>> /\ posted[1].bus /\ posted[1].priority /\ posted[1].mid = 2
    /\ Cardinality({c \in Calls : log[c].mid = 2}) = 2
    /\ \E c \in Calls : log[c].mid = 1 /\ log[c].pump = log[CHOOSE d \in Calls : log[d].mid = 2].pump

\* ----------------------------------------------------------- depth claims
\* parent.add(child) called now is refused for the child's depth
Refused(p, child) ==
    child # p /\ parent[child] # p /\ depth[child] >= depth_max

\* parent.add(child) called now raises nothing and leaves the child's parent
\* and depth, the parent's children and the bus registry as they are
AddChangesNothing(p, child) ==
    \A junk \in JunkDepths :
        LET s == IF Kind(p) = "UIRoot" THEN root_add(St, p, child, junk)
                 ELSE add(St, p, child, junk)
        IN  /\ s.err = "none"
            /\ s.parent = parent /\ s.depth = depth /\ s.children = children
            /\ s.address = address /\ s.elements = elements
            /\ s.handler_cache = handler_cache /\ s.next_addr = next_addr

\* C19 as claimed: an add() refused for the child's depth raises nothing and
\* leaves the tree and the registry unchanged, on an ordinary node and on the
\* root.
C19_RefusedAddUnchanged ==
    Running => \A p \in DepthNodes, child \in DepthNodes \ {"rt"} :
        Refused(p, child) => AddChangesNothing(p, child)
\* ------------------------------------------------------------ pump claims
\* C20 as claimed: the count a pump returns is the number of handler
\* invocations of its own loop that completed without failure.
C20_PumpCountsSuccesses ==
    \A r \in LogIdx : log[r].k = "ret" =>
        log[r].addr = Cardinality({c \in Calls : log[c].pump = log[r].pump /\ log[c].ok})
\* ------------------------------------------------------- isolation claims
\* C21 as claimed: once destroy() has returned for a node, the node has no
\* parent and no children and is in no node's children sequence, whatever is
\* added or removed later.  Stated for the nodes other than the root.
C21_DisposedIsolated ==
    Running => \A n \in Nodes \ {"rt"} : Destroyed(n) =>
        /\ parent[n] = NoNode /\ children[n] = <<>>
        /\ \A p \in Nodes : ~InList(children[p], n)

\* C22 as claimed: the DATA reply a node enqueues for a GET is addressed to
\* one address, that of the node that posted the GET, never to BROADCAST.
C22_ReplyUnicast ==
    \A i \in 1..Len(queue) : queue[i].rs = "R_DATA" => queue[i].receiver # BROADCAST

\* ----------------------------------------------------------- cache claims
\* C23 as claimed: every absolute rectangle that is cached is the node's
\* rectangle offset by the position of its current parent chain.
C23_CacheValid ==
    Running => \A n \in Nodes : cache_r[n] # <<>> => cache_r[n] = <<TrueAbs(n)>>

\* C24 as claimed: a root memoization that is present is the node's actual
\* topmost ancestor.
C24_RootMemoValid ==
    Running => \A n \in Nodes :
        cache[n] # NoNode => cache[n] = RootWalk(St, n, Cardinality(Nodes))

\* ----------------------------------------------------------- depth bound
\* C25 as claimed: after any sequence of add operations no node's depth
\* exceeds depth_max.
C25_DepthBounded ==
    Running => \A n \in Nodes : depth[n] <= depth_max

BelowRoot(n) == n # "rt" /\ RootWalk(St, n, Cardinality(Nodes)) = "rt"

\* C27 as claimed: after a press dispatched from the root, no node that was
\* active and whose bounds do not hold the position of the press is active.
C27_OutsideDeactivates ==
    (Running /\ event.seen # <<>>) =>
        \A n \in event.was :
            (BelowRoot(n) /\ ~collidepoint(TrueAbs(n), event.pos)) => ~active[n]

\* C28 as claimed: a press handed to a passthrough node, through
\* handle_event as through process_event, is reported not handled and leaves
\* the node's active flag as it was.
C28_PassthroughRefuses ==
    Running => \A n \in PassNodes, pos \in ClickPoints : passthrough[n] =>
        LET h == handle_event(St, n, pos)
            p == process_event(St, n, pos)
        IN  /\ p.err = "none" => (~p.ret /\ p.active[n] = active[n])
            /\ h.err = "none" => (~h.ret /\ h.active[n] = active[n])

\* ------------------------------------------------- registry consistency
\* C29: every address that is a key of the handler cache is a key of the
\* registry.
C29_HandlersRegistered ==
    DictKeys(handler_cache) \subseteq DictKeys(elements)

\* a node was unregistered by its destroy() and reclaimed, another node is
\* still registered beside the root, and the pumps have delivered enough for
\* the cleanup pass to have run
C29_Witness ==
    /\ \E n \in collected : Destroyed(n) /\ address[n] >= 1
    /\ Len(handler_cache) >= 2
    /\ Cardinality(Calls) >= cleanup_threshold

\* --------------------------------------------------------- reclamation
\* the client gives up its reference to n (del n); the moment is recorded in
\* the history
Abandon(n) ==
    /\ Running /\ n \in held /\ Kind(n) # "UIRoot"
    /\ Commit(Note([St EXCEPT !.held = @ \ {n}], "drop", 0, 0, n, TRUE, {}))

NextReclaim ==
    \/ \E p \in OwnNodes, child \in OwnNodes \ {"rt"} : OwnAdd(p, child)
    \/ \E p \in OwnNodes, child \in OwnNodes : OwnRemove(p, child)
    \/ \E n \in OwnNodes : OwnDestroy(n)
    \/ \E n \in OwnNodes : Abandon(n)
    \/ \E n \in OwnNodes : Collect(n)

\* the garbage collector reclaims an unreachable node sooner or later
SpecReclaim == Init /\ [][NextReclaim]_vars /\ WF_vars(\E n \in OwnNodes : Collect(n))

\* value of the bus's delivered counter after the first i entries of the
\* history: each returning pump adds its count, and a total that reaches the
\* threshold runs the cleanup pass and resets the counter
RECURSIVE ProcessedAfter(_)
ProcessedAfter(i) ==
    IF i = 0 THEN 0
    ELSE IF log[i].k # "ret" THEN ProcessedAfter(i - 1)
    ELSE LET total == ProcessedAfter(i - 1) + log[i].addr
         IN  IF total >= cleanup_threshold THEN 0 ELSE total

CleanupAt(i) ==
    /\ log[i].k = "ret"
    /\ ProcessedAfter(i - 1) + log[i].addr >= cleanup_threshold

\* n is registered, no owner leads to it, and a cleanup pass has run since
\* its last owner gave it up
LostAndSwept(n) ==
    /\ Running /\ Registered(n) /\ n \notin ReachableFrom(held)
    /\ \E i \in LogIdx : /\ log[i].k = "drop" /\ log[i].node = n
                         /\ \E j \in LogIdx : j > i /\ CleanupAt(j)

\* C30 as claimed: once a registered node has been dropped by all its owners
\* and the delivered count has reached the cleanup threshold, the node's registry
\* entry and its handler-cache entry are eventually removed.
C30_EventualReclamation ==
    \A n \in OwnNodes \ {"rt"} : LostAndSwept(n) ~> ~Registered(n)

\* the delivered counter is 0 after every pump whose total reached the
\* threshold, and is the running total otherwise
C30_CounterReset ==
    Running => processed = ProcessedAfter(Len(log))

\* a node is lost to its owners, still registered, and a cleanup pass has run
C30_Lost ==
    ~ \E n \in OwnNodes \ {"rt"} : LostAndSwept(n)

\* ------------------------------------------------------- announcement claims
\* the posts of the history that carry node n (the DISPOSED broadcasts of n)
DisposedPosts(n) == {i \in LogIdx : log[i].k = "post" /\ log[i].node = n}

\* C31 as claimed: over its lifetime at most one DISPOSED broadcast carrying
\* a node is posted, and a node that was destroyed while its post reached the
\* bus has exactly one, whatever was pending when destroy() was called.
C31_OneAnnouncement ==
    Running => \A n \in Nodes :
        /\ Cardinality(DisposedPosts(n)) <= 1
        /\ (\E i \in LogIdx : log[i].k = "disposed" /\ log[i].node = n /\ DisposedPosts(n) # {})
               => Cardinality(DisposedPosts(n)) = 1

\* ------------------------------------------------------------ shutdown claims
\* the root's destroy() has run to its end (running is False from then on)
ShutDown == Destroyed("rt")

ShutAdd(p, child) == ~ShutDown /\ AddrAdd(p, child)
ShutRemove(p, child) == ~ShutDown /\ AddrRemove(p, child)
Shutdown ==
    /\ Running /\ ~ShutDown
    /\ \E s \in {destroy(St, "rt")} : Commit(s)

NextShutdown ==
    \/ \E p \in DepthNodes, child \in DepthNodes \ {"rt"} : ShutAdd(p, child)
    \/ \E p \in DepthNodes, child \in DepthNodes : ShutRemove(p, child)
    \/ Shutdown

SpecShutdown == Init /\ [][NextShutdown]_vars

\* C32 as claimed: once the root's destroy() has run on a tree built by add
\* and remove, every node registered on the bus other than the root is
\* disposed and the root has no children, so the run loop's condition
\* (running or root has children) is false.
C32_ShutdownTerminates ==
    (Running /\ ShutDown) =>
        /\ \A n \in Nodes \ {"rt"} : address[n] >= 1 => disposed[n]
        /\ children["rt"] = <<>>

\* the registered nodes are disposed after the root's destroy()
C32_RegisteredDisposed ==
    (Running /\ ShutDown) => \A n \in Nodes \ {"rt"} : address[n] >= 1 => disposed[n]

====
